---- MODULE Spec2Model ----
(***************************************************************************)
(* VibeStream: the audio visualizer's capture/export pipeline, playback    *)
(* controller, render loop with its particle, spectrum and image layers,   *)
(* the audio context with its smoothing, volume and mute controls, the     *)
(* overlay of an analysed configuration onto the default configuration,    *)
(* and the upload flow that leads to the visualizer.                       *)
(*                                                                         *)
(* Sources: src/components/AudioVisualizer.tsx (the editor version of the  *)
(* component, lines 345-1524), src/services/geminiService.ts and           *)
(* src/App.tsx.                                                            *)
(***************************************************************************)
EXTENDS Integers, Sequences, FiniteSets, TLC

\* ------------------------------------------------------------------ bounds
\* MediaRecorder objects one run may construct.
MaxSessions == 2
\* Length of the audio track, in steps of the playback position.
AudioDuration == 2
\* Largest particle cap (cfg.particleCount) the particle runs draw from.
MaxParticleCount == 5
\* Shortest and longest particle lifetime in ticks, scaled down from
\* maxLife = Math.random() * 60 + 40.
MinLife == 2
MaxLife == 3
\* the distinct image files a user picks from
MaxImages == 2
\* the length of a frequency snapshot in the spectrum layout
MaxBins == 4

\* ------------------------------------------------------- program constants
BASE_WIDTH == 1920
BASE_HEIGHT == 1080
\* isBeat = bassAvg > 210
BeatThreshold == 210
\* for(let i=0; i<3; i++) particlesRef.current.push(new Particle(...))
SpawnBatch == 3
\* setExportProgress(Math.min(p, 99))
ProgressCap == 99
\* smoothing and volume in hundredths: smoothing 0.8 of the default config,
\* useState(1) of volume
MountSmoothing == 80
InitialVolume == 100
\* analyser.fftSize = 2048, so frequencyBinCount is 1024
frequencyBinCount == 1024
\* dataArray.length || 64
FallbackBins == 64
\* dataArray.length ? dataArray[...] : 10
PlaceholderLevel == 10
\* bassAvg > 100
ShakeThreshold == 100
\* barCount of the default config
DefaultBarCount == 64

RESOLUTIONS ==
  [ r \in {"720p", "1080p", "2k", "4k"} |->
      CASE r = "720p"  -> [w |-> 1280, h |-> 720]
        [] r = "1080p" -> [w |-> 1920, h |-> 1080]
        [] r = "2k"    -> [w |-> 2560, h |-> 1440]
        [] r = "4k"    -> [w |-> 3840, h |-> 2160] ]

ResolutionNames == DOMAIN RESOLUTIONS
Preview == [w |-> BASE_WIDTH, h |-> BASE_HEIGHT]

Sessions == 1..MaxSessions
Min(a, b) == IF a < b THEN a ELSE b

VARIABLES
  \* environment: MediaRecorder.isTypeSupported for the two probed types
  vp9Supported, webmSupported,
  \* React state
  isPlaying, isExporting, showExportModal, exportProgress, downloadUrl,
  \* refs
  canvas, mediaRecorderRef, recordedChunksRef, audioInit, speakerConnected,
  particles,
  \* the MediaRecorder objects, their queued event tasks, the interval timers
  recState, recPending, timer,
  \* the <audio> element
  audioTime, audioPaused, endedPending,
  \* what the user was shown by alert(), and which call stopped each encoder
  userError, stoppedBy,
  \* the renderer's configuration (cfg.showParticles, cfg.particleCount)
  showParticles, particleCount,
  \* analyzeAudioForVisualizer: a scene config, the object parsed from its
  \* serialized form, the merged result, and how far the round trip has come
  original, parsed, merged, configStep,
  \* the render loop: cfg.primaryColor, whether a frame callback is scheduled
  \* (animationRef), and the particles the last frame drew, in drawing order
  primaryColor, animationRef, drawn,
  \* App state, and the await handleFileSelect is suspended at
  step, audioFile, visualizerConfig, error, awaiting,
  \* audioContextRef.current.state and analyserRef's smoothingTimeConstant
  contextState, analyserSmoothing,
  \* config.smoothing, the volume and isMuted state, audio.volume, and the
  \* volume each session's onstop closure captured
  smoothing, volume, isMuted, elementVolume, capturedVolume,
  \* cfg.showBars, cfg.shakeStrength, cfg.barCount, and what the last frame
  \* drew: the number of spectrum bars, whether it shook, the images
  showBars, shakeStrength, barCount, frame,
  \* a frequency snapshot and the bars the mirrored linear layout drew for it
  dataArray, mirrorBars,
  \* config.backgroundImage / centerImage, bgImageRef / centerImageRef, and
  \* the Image objects whose onload has not fired yet
  image, imageRef, imageLoads

exportVars ==
  << vp9Supported, webmSupported, isPlaying, isExporting, showExportModal,
     exportProgress, downloadUrl, canvas, mediaRecorderRef,
     recordedChunksRef, audioInit, speakerConnected, recState, recPending,
     timer, audioTime, audioPaused, endedPending, userError, stoppedBy >>
particleVars == << particles, showParticles, particleCount >>
configVars == << original, parsed, merged, configStep >>
frameVars == << primaryColor, animationRef, drawn >>
appVars == << step, audioFile, visualizerConfig, error, awaiting >>
contextVars == << contextState, analyserSmoothing >>
mixerVars == << smoothing, volume, isMuted, elementVolume, capturedVolume >>
layerVars == << showBars, shakeStrength, barCount, frame, dataArray, mirrorBars >>
imageVars == << image, imageRef, imageLoads >>
vars ==
  << exportVars, particleVars, configVars, frameVars, appVars, contextVars,
     mixerVars, layerVars, imageVars >>

\* downloadUrl is null or an object URL of a Blob, the Blob being the list of
\* its chunks; a chunk is named by the session whose encoder emitted it.
NullUrl == << >>
ObjectUrl(blob) == << blob >>

\* progress is kept in units of 1/AudioDuration percent, so that
\* (currentTime / duration) * 100 is exact: percent p is stored as p*AudioDuration.
Percent(p) == p * AudioDuration

\* audio.ended: the playback position is at the end of the track.
AudioEnded == audioTime = AudioDuration

Recording(s) == recState[s] = "recording"
\* the number of MediaRecorder objects constructed so far
Created == Cardinality({s \in Sessions : recState[s] # "none"})

\* ------------------------------------------------------------ first click
\* document.addEventListener('click', handleInteraction, { once: true }):
\* the first click of any control runs initAudio after the control's own
\* handler; initAudio wires source -> analyser -> destination and
\* source -> streamDest. `spk` is the analyser -> destination connection as
\* the control's handler left it.
\* `ctx` is the context state as the handler left it. A
\* context made inside the click is running (line 583 resumes it if the
\* browser made it suspended), and its analyser gets the smoothing of the
\* config initAudio closed over, the one the component mounted with (line 564).
handleInteraction(spk, ctx) ==
  /\ audioInit' = TRUE
  /\ speakerConnected' = IF audioInit THEN spk ELSE TRUE
  /\ contextState' = IF audioInit THEN ctx ELSE "running"
  /\ analyserSmoothing' = IF audioInit THEN analyserSmoothing ELSE MountSmoothing

\* playback is heard: the element plays straight to the output until the
\* graph exists, and through analyser -> destination afterwards.
Audible == ~audioInit \/ speakerConnected

\* ------------------------------------------------------------ MediaRecorder
\* recorder.stop() on a recording encoder: state becomes "inactive" at once
\* and a task is queued that fires dataavailable and then stop.
StopState(s) == [recState EXCEPT ![s] = "inactive"]
StopPending(s) == [recPending EXCEPT ![s] = "stop"]

\* ------------------------------------------------------------------ render
\* line 616: the tick forces the preview size unless the current encoder records
RenderKeepsExportSize_RefOnly == mediaRecorderRef # 0
RenderKeepsExportSize ==
  mediaRecorderRef # 0 /\ recState[mediaRecorderRef] # "inactive"

\* lines 630-643: without an analyser the snapshot is empty and isBeat stays
\* false; with one, isBeat = bassAvg > 210 for the tick's bass average.
IsBeat_AtThreshold(bassAvg) == audioInit /\ bassAvg >= BeatThreshold
IsBeat(bassAvg) == audioInit /\ bassAvg > BeatThreshold

\* new Particle(...): life = maxLife
Particle(l) == [life |-> l, maxLife |-> l]
Lives == MinLife..MaxLife

\* particlesRef.current.splice(i, 1)
Splice_Head(ps, i) == Tail(ps)
Splice(ps, i) == SubSeq(ps, 1, i - 1) \o SubSeq(ps, i + 1, Len(ps))

\* lines 473-478, Particle.update: life--
update_NoDecay(p) == p
update(p) == [p EXCEPT !.life = @ - 1]

\* lines 480-488, Particle.draw: what one call paints, the array index it was
\* reached at included; globalAlpha = Math.max(0, life / maxLife) is kept as
\* the pair AlphaNum / maxLife
draw(p, i) == [index |-> i, life |-> p.life, maxLife |-> p.maxLife]
Max(a, b) == IF a > b THEN a ELSE b
AlphaNum(d) == Max(0, d.life)

\* lines 688-693: for (i = length-1; i >= 0; i--) { update; draw; splice if dead }
\* (i counts from Len(ps) down to 1 here); log gathers the draw calls in order
RECURSIVE ParticleLoop(_, _, _)
ParticleLoop(ps, i, log) ==
  IF i = 0 THEN [particles |-> ps, drawn |-> log]
  ELSE LET p == update(ps[i])
           updated == [ps EXCEPT ![i] = p]
       IN ParticleLoop(IF p.life <= 0 THEN Splice(updated, i) ELSE updated,
                       i - 1, Append(log, draw(p, i)))

ParticlePass(ps, i) == ParticleLoop(ps, i, << >>).particles

\* line 680: the spawn guard
SpawnAllowed_NoCap(isBeat) == isBeat
SpawnAllowed(isBeat) == isBeat /\ Len(particles) < particleCount

\* lines 679-694
RenderParticles(isBeat) ==
  IF showParticles
  THEN \E l1 \in Lives, l2 \in Lives, l3 \in Lives :
         LET spawned == IF SpawnAllowed(isBeat)
                        THEN particles \o << Particle(l1), Particle(l2), Particle(l3) >>
                        ELSE particles
         IN /\ particles' = ParticlePass(spawned, Len(spawned))
            /\ drawn' = ParticleLoop(spawned, Len(spawned), << >>).drawn
  ELSE /\ particles' = particles
       /\ drawn' = << >>

\* strings the canvas parses as a CSS color; anything else makes
\* CanvasGradient.addColorStop throw a SyntaxError
CssColors == {"#a855f7", "#ff0000", "#ffffff", "#00ff00"}

\* lines 706-711: with showBars, colorMode "gradient" and rainbowMode off (the
\* defaults, line 338-343 of geminiService.ts) every frame builds the spectrum
\* gradient from cfg.primaryColor
SpectrumThrows == showBars /\ primaryColor \notin CssColors

\* lines 631-638: the snapshot is empty until the analyser exists
SnapshotLength == IF audioInit THEN frequencyBinCount ELSE 0

\* lines 633-641: bassAvg stays 0 without an analyser
BassAvg(b) == IF audioInit THEN b ELSE 0

\* line 647
Shakes(b) == shakeStrength > 0 /\ BassAvg(b) > ShakeThreshold

\* line 714
BarsToRender(n, len) == Min(n, IF len = 0 THEN FallbackBins ELSE len)

\* lines 660 and 845: an image layer is drawn when its ref holds a decoded
\* image and the config names an image
Slots == {"backgroundImage", "centerImage"}
NoImage == 0
Images == 1..MaxImages
ImageDrawn(slot) ==
  IF imageRef[slot] # NoImage /\ image[slot] # NoImage
  THEN imageRef[slot] ELSE NoImage

\* what one frame puts on the canvas: the shake of lines 645-657, the
\* background image (659-675), the spectrum bars (696-842; every style draws
\* barsToRender of them, from the snapshot or from the placeholder level),
\* the center image (844-858), which an exception in the spectrum layer skips
NothingDrawn ==
  [bars |-> 0, shake |-> FALSE, images |-> [slot \in Slots |-> NoImage]]
Frame(b) ==
  [bars |-> IF showBars /\ ~SpectrumThrows
            THEN BarsToRender(barCount, SnapshotLength) ELSE 0,
   shake |-> Shakes(b),
   images |-> [slot \in Slots |->
                 IF slot = "centerImage" /\ SpectrumThrows
                 THEN NoImage ELSE ImageDrawn(slot)]]

\* lines 609-907: one animation frame. Nothing in it is wrapped in try/catch:
\* an exception in a layer leaves the callback before line 906 re-schedules it
render(bassAvg) ==
  /\ step = "VISUALIZER"
  /\ animationRef
  /\ UNCHANGED << vp9Supported, webmSupported, isPlaying, isExporting,
                  showExportModal, exportProgress, downloadUrl,
                  mediaRecorderRef, recordedChunksRef, audioInit,
                  speakerConnected, recState, recPending, timer, audioTime,
                  audioPaused, endedPending, userError, stoppedBy,
                  showParticles, particleCount, configVars, primaryColor,
                  appVars, contextVars, mixerVars, showBars, shakeStrength,
                  barCount, dataArray, mirrorBars, imageVars >>
  /\ canvas' = IF RenderKeepsExportSize THEN canvas ELSE Preview
  /\ RenderParticles(IsBeat(bassAvg))
  /\ animationRef' = ~SpectrumThrows
  /\ frame' = Frame(bassAvg)

\* ------------------------------------------------------------ export logic
\* lines 932 and 937: the types the start handler probes, in order
ProbeList == << "video/webm;codecs=vp9", "video/webm" >>

\* MediaRecorder.isTypeSupported(t), for the probed types
isTypeSupported(t) ==
  IF t = "video/webm;codecs=vp9" THEN vp9Supported ELSE webmSupported

\* line 932: const mimeType, the type line 957 hands to new MediaRecorder
mimeType == "video/webm;codecs=vp9"

\* lines 935-944: neither probed type is supported
UnsupportedFormat_Never == FALSE
UnsupportedFormat == ~vp9Supported /\ ~webmSupported

\* lines 946-958 inside the try: streamDestRef.current! is dereferenced, and
\* new MediaRecorder(stream, { mimeType: "video/webm;codecs=vp9" }) throws
\* NotSupportedError when that type is unsupported, also after the plain
\* webm probe succeeded, since mimeType is never changed.
RecorderSetupThrows == ~audioInit \/ ~isTypeSupported(mimeType)

\* line 995: analyser.disconnect(destination) throws InvalidAccessError when
\* the analyser is not connected to the destination.
DisconnectThrows == audioInit /\ ~speakerConnected

\* lines 916-1016; r is exportSettings.resolution, as chosen with the
\* resolution buttons of the export modal (lines 1060-1066) before Start Export
handleStartExport(r) ==
  /\ showExportModal
  /\ showExportModal' = FALSE
  /\ exportProgress' = 0
  /\ canvas' = RESOLUTIONS[r]
  /\ IF UnsupportedFormat
     THEN \* alert(...); setIsExporting(false); return
          /\ userError' = "unsupported"
          /\ isExporting' = FALSE
          /\ handleInteraction(speakerConnected, contextState)
          /\ UNCHANGED << mediaRecorderRef, recordedChunksRef, recState, timer,
                          audioTime, audioPaused, stoppedBy, capturedVolume >>
     ELSE IF RecorderSetupThrows
     THEN \* catch: console.error(...); setIsExporting(false); return
          /\ userError' = "none"
          /\ isExporting' = FALSE
          /\ handleInteraction(speakerConnected, contextState)
          /\ UNCHANGED << mediaRecorderRef, recordedChunksRef, recState, timer,
                          audioTime, audioPaused, stoppedBy, capturedVolume >>
     ELSE /\ Created < MaxSessions
          /\ LET id == Created + 1 IN
             /\ userError' = "none"
             /\ isExporting' = TRUE
             /\ mediaRecorderRef' = id
             /\ recordedChunksRef' = << >>
             /\ stoppedBy' = stoppedBy
             /\ capturedVolume' = [capturedVolume EXCEPT ![id] = volume]
             /\ IF DisconnectThrows
                THEN \* the handler ends here with an unhandled rejection
                     /\ recState' = [recState EXCEPT ![id] = "inactive"]
                     /\ handleInteraction(speakerConnected, contextState)
                     /\ UNCHANGED << timer, audioTime, audioPaused >>
                ELSE /\ handleInteraction(FALSE, contextState)
                     /\ audioTime' = 0
                     /\ audioPaused' = FALSE
                     /\ recState' = [recState EXCEPT ![id] = "recording"]
                     /\ timer' = [timer EXCEPT ![id] = TRUE]
  /\ UNCHANGED << vp9Supported, webmSupported, isPlaying, downloadUrl,
                  recPending, endedPending, particleVars,
                  configVars, frameVars, appVars, smoothing, volume, isMuted,
                  elementVolume,
                  layerVars, imageVars >>

\* lines 1006-1015: one firing of session s's interval
ProgressOf(t) == Min(100 * t, Percent(ProgressCap))

checkProgress(s) ==
  /\ timer[s]
  /\ exportProgress' = ProgressOf(audioTime)
  /\ IF AudioEnded
     THEN /\ timer' = [timer EXCEPT ![s] = FALSE]
          /\ IF Recording(s)
             THEN /\ recState' = StopState(s)
                  /\ recPending' = StopPending(s)
                  /\ stoppedBy' = [stoppedBy EXCEPT ![s] = "ended"]
             ELSE UNCHANGED << recState, recPending, stoppedBy >>
     ELSE UNCHANGED << timer, recState, recPending, stoppedBy >>
  /\ UNCHANGED << vp9Supported, webmSupported, isPlaying, isExporting,
                  showExportModal, downloadUrl, canvas,
                  mediaRecorderRef, recordedChunksRef, audioInit,
                  speakerConnected, audioTime, audioPaused, endedPending,
                  userError, particleVars, configVars, frameVars, appVars, contextVars, mixerVars,
                  layerVars, imageVars >>

\* lines 969-971: a chunk of session s is appended to the shared buffer if it
\* is not empty
ondataavailable(s, size) ==
  IF size > 0 THEN Append(recordedChunksRef, s) ELSE recordedChunksRef

\* lines 973-990, and the task recorder.stop() queued: it fires dataavailable
\* with the data gathered so far and then stop, one after the other
onstop(s) ==
  /\ recPending[s] = "stop"
  /\ recPending' = [recPending EXCEPT ![s] = "none"]
  /\ \E size \in {0, 1} :
       /\ recordedChunksRef' = ondataavailable(s, size)
       /\ downloadUrl' = ObjectUrl(recordedChunksRef')
  /\ isExporting' = FALSE
  /\ speakerConnected' = (audioInit \/ speakerConnected)
  /\ elementVolume' = capturedVolume[s]
  /\ canvas' = Preview
  /\ UNCHANGED << vp9Supported, webmSupported, isPlaying, showExportModal,
                  exportProgress, mediaRecorderRef, audioInit, recState, timer,
                  audioTime, audioPaused, endedPending, userError, stoppedBy,
                  particleVars, configVars, frameVars, appVars, contextVars, smoothing,
                  volume, isMuted, capturedVolume,
                  layerVars, imageVars >>

\* lines 1023-1026: restore audio
CancelRestoresAudio_Missing == speakerConnected
CancelRestoresAudio == audioInit \/ speakerConnected

cancelExport ==
  /\ isExporting
  /\ IF mediaRecorderRef # 0 /\ Recording(mediaRecorderRef)
     THEN /\ recState' = StopState(mediaRecorderRef)
          /\ recPending' = StopPending(mediaRecorderRef)
          /\ stoppedBy' = [stoppedBy EXCEPT ![mediaRecorderRef] = "cancelExport"]
     ELSE UNCHANGED << recState, recPending, stoppedBy >>
  /\ isExporting' = FALSE
  /\ handleInteraction(CancelRestoresAudio, contextState)
  /\ UNCHANGED << vp9Supported, webmSupported, isPlaying, showExportModal,
                  exportProgress, downloadUrl, canvas,
                  mediaRecorderRef, recordedChunksRef, timer, audioTime,
                  audioPaused, endedPending, userError, particleVars, configVars, frameVars, appVars, mixerVars,
                  layerVars, imageVars >>

\* ------------------------------------------------------------- UI actions
\* lines 1139 and 1463: the two export buttons
OpenExportModal ==
  /\ showExportModal' = TRUE
  /\ handleInteraction(speakerConnected, contextState)
  /\ UNCHANGED << vp9Supported, webmSupported, isPlaying, isExporting,
                  exportProgress, downloadUrl, canvas,
                  mediaRecorderRef, recordedChunksRef, recState, recPending,
                  timer, audioTime, audioPaused, endedPending, userError,
                  stoppedBy, particleVars, configVars, frameVars, appVars, mixerVars,
                  layerVars, imageVars >>

\* line 1191: Discard & Close
discardDownload ==
  /\ downloadUrl # NullUrl
  /\ downloadUrl' = NullUrl
  /\ handleInteraction(speakerConnected, contextState)
  /\ UNCHANGED << vp9Supported, webmSupported, isPlaying, isExporting,
                  showExportModal, exportProgress, canvas,
                  mediaRecorderRef, recordedChunksRef, recState, recPending,
                  timer, audioTime, audioPaused, endedPending, userError,
                  stoppedBy, particleVars, configVars, frameVars, appVars, mixerVars,
                  layerVars, imageVars >>

\* line 1036: the play branch resumes a suspended context
ResumedOnPlay ==
  IF ~isPlaying /\ contextState = "suspended" THEN "running" ELSE contextState

\* lines 1031-1040; audio.play() on a track that has ended restarts it
togglePlay ==
  /\ IF isPlaying
     THEN /\ audioPaused' = TRUE
          /\ audioTime' = audioTime
     ELSE /\ audioPaused' = FALSE
          /\ audioTime' = IF AudioEnded THEN 0 ELSE audioTime
  /\ isPlaying' = ~isPlaying
  /\ handleInteraction(speakerConnected, ResumedOnPlay)
  /\ UNCHANGED << vp9Supported, webmSupported, isExporting, showExportModal,
                  exportProgress, downloadUrl, canvas,
                  mediaRecorderRef, recordedChunksRef, recState, recPending,
                  timer, endedPending, userError, stoppedBy, particleVars,
                  configVars, frameVars, appVars, mixerVars,
                  layerVars, imageVars >>

\* line 1456: the restart button, audioRef.current.currentTime = 0
seekToStart ==
  /\ audioTime # 0
  /\ audioTime' = 0
  /\ handleInteraction(speakerConnected, contextState)
  /\ UNCHANGED << vp9Supported, webmSupported, isPlaying, isExporting,
                  showExportModal, exportProgress, downloadUrl, canvas, mediaRecorderRef, recordedChunksRef, recState,
                  recPending, timer, audioPaused, endedPending, userError,
                  stoppedBy, particleVars, configVars, frameVars, appVars, mixerVars,
                  layerVars, imageVars >>

\* ------------------------------------------------------ the <audio> element
\* playback moves the position forward; reaching the end queues the task that
\* pauses the element and fires `ended`
audioAdvance ==
  /\ ~audioPaused
  /\ audioTime < AudioDuration
  /\ audioTime' = audioTime + 1
  /\ endedPending' = (endedPending \/ audioTime' = AudioDuration)
  /\ UNCHANGED << vp9Supported, webmSupported, isPlaying, isExporting,
                  showExportModal, exportProgress, downloadUrl, canvas, mediaRecorderRef, recordedChunksRef, audioInit,
                  speakerConnected, recState, recPending, timer, audioPaused,
                  userError, stoppedBy, particleVars, configVars, frameVars, appVars, contextVars, mixerVars,
                  layerVars, imageVars >>

\* line 1495: onEnded={() => setIsPlaying(false)}, fired by the queued task if
\* playback is still at its end and unpaused when the task runs
onEnded ==
  /\ endedPending
  /\ endedPending' = FALSE
  /\ IF AudioEnded /\ ~audioPaused
     THEN audioPaused' = TRUE /\ isPlaying' = FALSE
     ELSE UNCHANGED << audioPaused, isPlaying >>
  /\ UNCHANGED << vp9Supported, webmSupported, isExporting, showExportModal,
                  exportProgress, downloadUrl, canvas,
                  mediaRecorderRef, recordedChunksRef, audioInit,
                  speakerConnected, recState, recPending, timer, audioTime,
                  userError, stoppedBy, particleVars, configVars, frameVars, appVars, contextVars, mixerVars,
                  layerVars, imageVars >>

\* ------------------------------------------------------- editor controls
\* the browser suspends a running AudioContext (an interruption of the audio
\* session, a frozen tab); the code tests for this state on lines 583 and 1036
contextSuspends ==
  /\ audioInit
  /\ contextState = "running"
  /\ contextState' = "suspended"
  /\ UNCHANGED << exportVars, particleVars, configVars, frameVars, appVars,
                  analyserSmoothing, mixerVars, layerVars, imageVars >>

\* line 1226, the Smoothing slider moved with the keyboard, and the effect of
\* lines 595-597 that follows the state change
setSmoothing(v) ==
  /\ v # smoothing
  /\ smoothing' = v
  /\ analyserSmoothing' = IF audioInit THEN v ELSE analyserSmoothing
  /\ UNCHANGED << exportVars, particleVars, configVars, frameVars, appVars,
                  contextState, volume, isMuted, elementVolume, capturedVolume,
                  layerVars, imageVars >>

\* line 1477: the mute button
toggleMute ==
  /\ isMuted' = ~isMuted
  /\ handleInteraction(speakerConnected, contextState)
  /\ UNCHANGED << vp9Supported, webmSupported, isPlaying, isExporting,
                  showExportModal, exportProgress, downloadUrl, canvas,
                  mediaRecorderRef, recordedChunksRef, recState, recPending,
                  timer, audioTime, audioPaused, endedPending, userError,
                  stoppedBy, particleVars, configVars, frameVars, appVars,
                  smoothing, volume, elementVolume, capturedVolume, layerVars,
                  imageVars >>

\* lines 1480-1483: the volume slider shows isMuted ? 0 : volume and its
\* onChange (moved with the keyboard) stores v and sets audio.volume
ShownVolume == IF isMuted THEN 0 ELSE volume

setVolume(v) ==
  /\ v # ShownVolume
  /\ volume' = v
  /\ elementVolume' = v
  /\ UNCHANGED << exportVars, particleVars, configVars, frameVars, appVars,
                  contextVars, smoothing, isMuted, capturedVolume, layerVars,
                  imageVars >>

\* lines 1341 and 1373: a file picked for an image slot (the click that opened
\* the picker included), FileReader.onload storing its data URL in the
\* config, and the effect of lines 539-555 starting to load it
setImage(slot, img) ==
  /\ img # image[slot]
  /\ image' = [image EXCEPT ![slot] = img]
  /\ imageLoads' = [imageLoads EXCEPT ![slot] = @ \cup {img}]
  /\ handleInteraction(speakerConnected, contextState)
  /\ UNCHANGED << vp9Supported, webmSupported, isPlaying, isExporting,
                  showExportModal, exportProgress, downloadUrl, canvas,
                  mediaRecorderRef, recordedChunksRef, recState, recPending,
                  timer, audioTime, audioPaused, endedPending, userError,
                  stoppedBy, particleVars, configVars, frameVars, appVars,
                  mixerVars, layerVars, imageRef >>

\* lines 1344 and 1376: the remove button of an image slot, and the else
\* branch of the effect (lines 545 and 554)
clearImage(slot) ==
  /\ image[slot] # NoImage
  /\ image' = [image EXCEPT ![slot] = NoImage]
  /\ imageRef' = [imageRef EXCEPT ![slot] = NoImage]
  /\ handleInteraction(speakerConnected, contextState)
  /\ UNCHANGED << vp9Supported, webmSupported, isPlaying, isExporting,
                  showExportModal, exportProgress, downloadUrl, canvas,
                  mediaRecorderRef, recordedChunksRef, recState, recPending,
                  timer, audioTime, audioPaused, endedPending, userError,
                  stoppedBy, particleVars, configVars, frameVars, appVars,
                  mixerVars, layerVars, imageLoads >>

\* lines 544 and 553: img.onload of an Image object the effect created
onload(slot, img) ==
  /\ img \in imageLoads[slot]
  /\ imageLoads' = [imageLoads EXCEPT ![slot] = @ \ {img}]
  /\ imageRef' = [imageRef EXCEPT ![slot] = img]
  /\ UNCHANGED << exportVars, particleVars, configVars, frameVars, appVars,
                  contextVars, mixerVars, layerVars, image >>

\* ------------------------------------------ the mirrored linear bar layout
\* line 783
Step(n, len) ==
  (IF len = 0 THEN FallbackBins ELSE len) \div BarsToRender(n, len)

Abs(x) == IF x < 0 THEN -x ELSE x

\* line 825: centerOffset * step for bar i (from 0) of n, doubled so that it
\* stays an integer: 2 * |n/2 - i| * step
TwiceMirrorIndex(i, n, st) == Abs(n - 2 * i) * st

\* a read of a Uint8Array: off an integer index, or past the end, the value
\* is undefined and the height computed from it is NaN
NaN == -1
ReadBin(data, twice) ==
  IF twice % 2 = 0 /\ twice \div 2 < Len(data)
  THEN data[twice \div 2 + 1] ELSE NaN

\* lines 824-831: the bar drawn at position i; its height is mirrorVal times
\* positive factors, kept here as mirrorVal itself
MirrorBar(data, i, n) ==
  LET twice == TwiceMirrorIndex(i, n, Step(n, Len(data)))
  IN [twiceIndex |-> twice,
      height |-> IF Len(data) # 0 THEN ReadBin(data, twice)
                 ELSE PlaceholderLevel]

RECURSIVE MirrorBarsFrom(_, _, _)
MirrorBarsFrom(data, i, n) ==
  IF i = n THEN << >>
  ELSE << MirrorBar(data, i, n) >> \o MirrorBarsFrom(data, i + 1, n)

\* lines 812-838 with cfg.mirror: for (i = 0; i < barsToRender; i++)
LinearMirrorBars(data, n) ==
  MirrorBarsFrom(data, 0, BarsToRender(n, Len(data)))

\* the spectrum layer of a frame in linear mode, bars style, mirror on,
\* applied to the snapshot
drawLinearBars ==
  /\ mirrorBars' = LinearMirrorBars(dataArray, barCount)
  /\ UNCHANGED << exportVars, particleVars, configVars, frameVars, appVars,
                  contextVars, mixerVars, showBars, shakeStrength, barCount,
                  frame, dataArray, imageVars >>

\* ------------------------------------------------- configuration overlay
\* lines 331-387 of geminiService.ts, restricted to one field of each kind
\* (enum, color, number) and the nested text overlay
DefaultConfig ==
  [ mode |-> "circular",
    primaryColor |-> "#a855f7",
    particleCount |-> 50,
    text |-> [topText |-> "cleanName", color |-> "#ffffff"] ]

SceneConfigs ==
  [ mode : {"circular", "linear"},
    primaryColor : {"#a855f7", "#ff0000"},
    particleCount : {50, 120},
    text : [topText : {"cleanName", "My Song"}, color : {"#ffffff", "#00ff00"}] ]

TextFields == DOMAIN DefaultConfig.text

\* JSON.parse(cleanJsonString(JSON.stringify(x))) for the object x holding the
\* fields F of c, its text holding the fields TF: strings, finite numbers and
\* nested objects come back as they went in, and a field left out is absent.
Serialized(c, F, TF) ==
  [ f \in F |-> IF f = "text" THEN [g \in TF |-> c.text[g]] ELSE c[f] ]

\* JavaScript truthiness of a string-or-missing value
Truthy(obj, f) == f \in DOMAIN obj /\ obj[f] # ""

\* lines 406-413: { ...defaultConfig, ...parsed, text: { ...defaultConfig.text,
\*                  color: parsed.primaryColor || "#ffffff" } }
MergedText(p) ==
  [ DefaultConfig.text EXCEPT
      !.color = IF Truthy(p, "primaryColor") THEN p.primaryColor ELSE "#ffffff" ]

Overlay(p) ==
  [ f \in DOMAIN DefaultConfig \cup DOMAIN p |->
      IF f = "text" THEN MergedText(p)
      ELSE IF f \in DOMAIN p THEN p[f]
      ELSE DefaultConfig[f] ]

\* ---------------------------------------------------------------- App.tsx
\* line 41: file.size > 100 * 1024 * 1024
MaxFileBytes == 104857600

NoFile == -1
NullConfig == << >>

\* the objects a response of the collaborator can parse to: any subset of the
\* fields, a value of the right kind or not (a mode outside the enum, a string
\* that is no color, an empty string), and a field the config does not have
ResponseValues ==
  [ mode : {"linear", "spiral"},
    primaryColor : {"#ff0000", "#GGGGGG", ""},
    particleCount : {120},
    text : {[topText |-> "My Song", color |-> "#00ff00"]},
    glow : {"neon"} ]

ResponseFields == {"mode", "primaryColor", "particleCount", "text", "glow"}

Responses ==
  { [f \in F |-> v[f]] : F \in SUBSET ResponseFields, v \in ResponseValues }

\* how the request of lines 390-402 of geminiService.ts can end: it rejects,
\* its text is not JSON, its text is the JSON null (parsed.primaryColor then
\* throws a TypeError), or its text is a JSON object
Outcomes == {"rejects", "unparseable", "null", "object"}

\* lines 403-419 of geminiService.ts: the merge, or the catch's defaultConfig
AnalysisResult_Partial(outcome, p) ==
  IF outcome = "object" THEN Overlay(p) ELSE Overlay([mode |-> "linear"])
AnalysisResult(outcome, p) ==
  IF outcome = "object" THEN Overlay(p) ELSE DefaultConfig

\* line 41
TooLarge_Inclusive(size) == size >= MaxFileBytes
TooLarge(size) == size > MaxFileBytes

\* lines 39-50: handleFileSelect up to its first await; the uploader that
\* calls it is rendered in the UPLOAD step only (line 157)
handleFileSelect(size) ==
  /\ step = "UPLOAD"
  /\ awaiting = "none"
  /\ IF TooLarge(size)
     THEN /\ error' = "File size too large"
          /\ UNCHANGED << step, audioFile, awaiting >>
     ELSE /\ audioFile' = size
          /\ error' = "none"
          /\ step' = "ANALYZING"
          /\ awaiting' = "fileToBase64"
  /\ UNCHANGED << visualizerConfig, exportVars, particleVars, configVars,
                  frameVars, contextVars, mixerVars, layerVars, imageVars >>

\* lines 26-37 and 59-61: the FileReader loads the file and
\* analyzeAudioForVisualizer sends its request, or the reader fails and the
\* catch of lines 65-69 runs
fileToBase64(loaded) ==
  /\ awaiting = "fileToBase64"
  /\ IF loaded
     THEN /\ awaiting' = "generateContent"
          /\ UNCHANGED << step, error >>
     ELSE /\ awaiting' = "none"
          /\ error' = "Failed to analyze audio"
          /\ step' = "UPLOAD"
  /\ UNCHANGED << audioFile, visualizerConfig, exportVars, particleVars,
                  configVars, frameVars, contextVars, mixerVars, layerVars,
                  imageVars >>

\* the request settles: lines 403-419 of geminiService.ts, then lines 62-63 of
\* App.tsx, then AudioVisualizer mounts with the config (lines 493-535) and
\* its effect calls render for the first time (line 909)
generateContent(outcome, p) ==
  /\ awaiting = "generateContent"
  /\ awaiting' = "none"
  /\ parsed' = IF outcome = "object" THEN p ELSE << >>
  /\ merged' = AnalysisResult(outcome, p)
  /\ configStep' = IF outcome = "object" THEN "merged" ELSE "caught"
  /\ visualizerConfig' = merged'
  /\ step' = "VISUALIZER"
  /\ primaryColor' = merged'.primaryColor
  /\ particleCount' = merged'.particleCount
  /\ showParticles' = TRUE
  /\ particles' = << >>
  /\ drawn' = << >>
  /\ animationRef' = TRUE
  /\ showBars' = TRUE
  /\ UNCHANGED << audioFile, error, original, exportVars, contextVars,
                  mixerVars, shakeStrength, barCount, frame, dataArray,
                  mirrorBars, imageVars >>

\* lines 72-77, the visualizer's onBack; unmounting cancels the frame
\* (line 910)
handleReset ==
  /\ step = "VISUALIZER"
  /\ step' = "UPLOAD"
  /\ audioFile' = NoFile
  /\ visualizerConfig' = NullConfig
  /\ error' = "none"
  /\ animationRef' = FALSE
  /\ UNCHANGED << awaiting, primaryColor, drawn, exportVars, particleVars,
                  configVars, contextVars, mixerVars, layerVars, imageVars >>

\* --------------------------------------------------------- specifications
\* bass averages a snapshot can have: silence, the threshold, a beat
BassLevels == {0, BeatThreshold, BeatThreshold + 1}

InitExportVars ==
  /\ isPlaying = FALSE
  /\ isExporting = FALSE
  /\ showExportModal = FALSE
  /\ exportProgress = 0
  /\ downloadUrl = NullUrl
  /\ canvas = Preview
  /\ mediaRecorderRef = 0
  /\ recordedChunksRef = << >>
  /\ audioInit = FALSE
  /\ speakerConnected = FALSE
  /\ recState = [s \in Sessions |-> "none"]
  /\ recPending = [s \in Sessions |-> "none"]
  /\ timer = [s \in Sessions |-> FALSE]
  /\ stoppedBy = [s \in Sessions |-> "none"]
  /\ audioTime = 0
  /\ audioPaused = TRUE
  /\ endedPending = FALSE
  /\ userError = "none"

InitConfigIdle ==
  /\ original = << >>
  /\ parsed = << >>
  /\ merged = << >>
  /\ configStep = "idle"

\* no AudioContext yet; smoothing, volume and mute as the component mounts
NoAnalyser == -1

InitAudio ==
  /\ contextState = "none"
  /\ analyserSmoothing = NoAnalyser
  /\ smoothing = MountSmoothing
  /\ volume = InitialVolume
  /\ isMuted = FALSE
  /\ elementVolume = InitialVolume
  /\ capturedVolume = [s \in Sessions |-> InitialVolume]

\* no image chosen, nothing drawn yet, no snapshot laid out
InitImages ==
  /\ image = [slot \in Slots |-> NoImage]
  /\ imageRef = [slot \in Slots |-> NoImage]
  /\ imageLoads = [slot \in Slots |-> {}]

InitCanvas ==
  /\ frame = NothingDrawn
  /\ dataArray = << >>
  /\ mirrorBars = << >>

\* a configuration with the spectrum and the shake switched off
InitLayersOff ==
  /\ showBars = FALSE
  /\ shakeStrength = 0
  /\ barCount = DefaultBarCount

InitEditor == InitAudio /\ InitImages /\ InitCanvas /\ InitLayersOff

\* the visualizer mounted with the default configuration
InitMounted ==
  /\ step = "VISUALIZER"
  /\ audioFile = 1
  /\ visualizerConfig = DefaultConfig
  /\ error = "none"
  /\ awaiting = "none"
  /\ primaryColor = DefaultConfig.primaryColor
  /\ animationRef = TRUE
  /\ drawn = << >>

\* the editor with the particle layer off
Init ==
  /\ vp9Supported \in BOOLEAN
  /\ webmSupported \in BOOLEAN
  \* a browser that records vp9 in webm records webm
  /\ vp9Supported => webmSupported
  /\ InitExportVars
  /\ particles = << >>
  /\ showParticles = FALSE
  /\ particleCount = MaxParticleCount
  /\ InitConfigIdle
  /\ InitMounted
  /\ InitEditor

Next ==
  \/ OpenExportModal
  \/ \E r \in ResolutionNames : handleStartExport(r)
  \/ cancelExport
  \/ discardDownload
  \/ togglePlay
  \/ seekToStart
  \/ audioAdvance
  \/ onEnded
  \/ \E s \in Sessions : checkProgress(s)
  \/ \E s \in Sessions : onstop(s)
  \/ \E b \in BassLevels : render(b)

Spec == Init /\ [][Next]_vars

\* the capture pipeline under the scheduling the browser guarantees: playing
\* audio advances and its ended task runs; an interval timer that is set keeps
\* firing, a queued encoder task runs, frames keep being drawn
Fairness ==
  /\ WF_vars(audioAdvance)
  /\ WF_vars(onEnded)
  /\ SF_vars(\E b \in BassLevels : render(b))
  /\ \A s \in Sessions :
       /\ SF_vars(checkProgress(s))
       /\ SF_vars(onstop(s))

FairSpec == Spec /\ Fairness

\* ------------------------------------------------------- particle subsystem
\* the editor with the particle layer on and no export
InitParticles ==
  /\ vp9Supported = TRUE
  /\ webmSupported = TRUE
  /\ InitExportVars
  /\ particles = << >>
  /\ showParticles = TRUE
  /\ particleCount \in (SpawnBatch + 1)..MaxParticleCount
  /\ InitConfigIdle
  /\ InitMounted
  /\ InitEditor

NextParticles ==
  \/ togglePlay
  \/ \E b \in BassLevels : render(b)

SpecParticles == InitParticles /\ [][NextParticles]_vars

\* ------------------------------------------- configuration round trip
serialize(F, TF) ==
  /\ configStep = "config"
  /\ parsed' = Serialized(original, F, TF)
  /\ configStep' = "serialized"
  /\ UNCHANGED << exportVars, particleVars, original, merged, frameVars, appVars, contextVars, mixerVars,
                  layerVars, imageVars >>

\* lines 389-414, the path on which the response parses
analyzeAudioForVisualizer ==
  /\ configStep = "serialized"
  /\ merged' = Overlay(parsed)
  /\ configStep' = "merged"
  /\ UNCHANGED << exportVars, particleVars, original, parsed, frameVars, appVars, contextVars, mixerVars,
                  layerVars, imageVars >>

InitConfig ==
  /\ vp9Supported = TRUE
  /\ webmSupported = TRUE
  /\ InitExportVars
  /\ particles = << >>
  /\ showParticles = FALSE
  /\ particleCount = MaxParticleCount
  /\ original \in SceneConfigs
  /\ parsed = << >>
  /\ merged = << >>
  /\ configStep = "config"
  /\ InitMounted
  /\ InitEditor

NextConfig ==
  \/ \E F \in SUBSET DOMAIN DefaultConfig, TF \in SUBSET TextFields :
       /\ ("text" \notin F => TF = {})
       /\ serialize(F, TF)
  \/ analyzeAudioForVisualizer

SpecConfig == InitConfig /\ [][NextConfig]_vars

\* ------------------------------------------------------- upload to visualizer
FileSizes == {1, MaxFileBytes, MaxFileBytes + 1}

InitApp ==
  /\ vp9Supported = TRUE
  /\ webmSupported = TRUE
  /\ InitExportVars
  /\ particles = << >>
  /\ showParticles = FALSE
  /\ particleCount = MaxParticleCount
  /\ InitConfigIdle
  /\ step = "UPLOAD"
  /\ audioFile = NoFile
  /\ visualizerConfig = NullConfig
  /\ error = "none"
  /\ awaiting = "none"
  /\ primaryColor = DefaultConfig.primaryColor
  /\ animationRef = FALSE
  /\ drawn = << >>
  /\ InitEditor

NextApp ==
  \/ \E size \in FileSizes : handleFileSelect(size)
  \/ \E loaded \in BOOLEAN : fileToBase64(loaded)
  \/ \E outcome \in Outcomes, p \in Responses : generateContent(outcome, p)
  \/ \E b \in BassLevels : render(b)
  \/ handleReset

SpecApp == InitApp /\ [][NextApp]_vars

\* --------------------------------------- audio context, smoothing, export
Smoothings == {50, MountSmoothing}

InitContext ==
  /\ vp9Supported = TRUE
  /\ webmSupported = TRUE
  /\ InitExportVars
  /\ particles = << >>
  /\ showParticles = FALSE
  /\ particleCount = MaxParticleCount
  /\ InitConfigIdle
  /\ InitMounted
  /\ InitEditor

NextContext ==
  \/ togglePlay
  \/ OpenExportModal
  \/ \E r \in ResolutionNames : handleStartExport(r)
  \/ cancelExport
  \/ \E s \in Sessions : onstop(s)
  \/ contextSuspends
  \/ \E v \in Smoothings : setSmoothing(v)

SpecContext == InitContext /\ [][NextContext]_vars

\* ------------------------------------------------------- volume and mute
Volumes == {0, 50, InitialVolume}

NextMixer ==
  \/ toggleMute
  \/ \E v \in Volumes : setVolume(v)
  \/ togglePlay
  \/ OpenExportModal
  \/ \E r \in ResolutionNames : handleStartExport(r)
  \/ cancelExport
  \/ \E s \in Sessions : onstop(s)

SpecMixer == InitContext /\ [][NextMixer]_vars

\* ------------------------------------- a frame with its audio-reactive layers
BarCounts == {32, DefaultBarCount, 128}

InitFrame ==
  /\ vp9Supported = TRUE
  /\ webmSupported = TRUE
  /\ InitExportVars
  /\ particles = << >>
  /\ showParticles = TRUE
  /\ particleCount = SpawnBatch + 1
  /\ InitConfigIdle
  /\ InitMounted
  /\ InitAudio
  /\ InitImages
  /\ InitCanvas
  /\ showBars \in BOOLEAN
  /\ shakeStrength \in {0, 1}
  /\ barCount \in BarCounts

NextFrame ==
  \/ togglePlay
  \/ \E b \in BassLevels : render(b)

SpecFrame == InitFrame /\ [][NextFrame]_vars

\* ------------------------------------------------ the mirrored bar layout
Levels == {0, 255}
Snapshots == { << >> } \cup [1..MaxBins -> Levels]

InitSpectrum ==
  /\ vp9Supported = TRUE
  /\ webmSupported = TRUE
  /\ InitExportVars
  /\ particles = << >>
  /\ showParticles = FALSE
  /\ particleCount = MaxParticleCount
  /\ InitConfigIdle
  /\ InitMounted
  /\ InitAudio
  /\ InitImages
  /\ frame = NothingDrawn
  /\ showBars = TRUE
  /\ shakeStrength = 0
  /\ barCount \in 1..MaxBins
  /\ dataArray \in Snapshots
  /\ mirrorBars = << >>

NextSpectrum == drawLinearBars

SpecSpectrum == InitSpectrum /\ [][NextSpectrum]_vars

\* ---------------------------------------------------- image layers
NextImages ==
  \/ \E slot \in Slots, img \in Images : setImage(slot, img)
  \/ \E slot \in Slots : clearImage(slot)
  \/ \E slot \in Slots, img \in Images : onload(slot, img)
  \/ \E b \in BassLevels : render(b)

SpecImages == InitContext /\ [][NextImages]_vars

\* ================================================================= claims

\* the session the ref points at was stopped by cancelExport, and no encoder
\* has been constructed since
SinceCancel ==
  mediaRecorderRef # 0 /\ stoppedBy[mediaRecorderRef] = "cancelExport"

\* session s has been stopped and its stop callback has run
Flushed(s) == recState[s] = "inactive" /\ recPending[s] = "none" /\ stoppedBy[s] # "none"

\* C1: a handleStartExport step taken while some encoder is recording fails
\* with an explicit error, constructs and starts no MediaRecorder, and leaves
\* the running session (ref, chunk buffer, timers, audio position) untouched.
C1_SecondStartRejected ==
  [][ ((\E r \in ResolutionNames : handleStartExport(r)) /\ \E s \in Sessions : Recording(s))
        => /\ userError' # "none"
           /\ recState' = recState
           /\ mediaRecorderRef' = mediaRecorderRef
           /\ recordedChunksRef' = recordedChunksRef
           /\ timer' = timer
           /\ audioTime' = audioTime ]_vars

\* C2: once cancelExport has stopped the recording encoder, and until another
\* encoder is constructed, the analyser is connected to the speakers, every
\* render tick leaves the canvas at 1920x1080, and a canvas at 1920x1080 stays
\* there, whatever the export resolution was.
C2_CancelRestoresPreview ==
  [][ /\ SinceCancel' => speakerConnected'
      /\ (SinceCancel' /\ canvas' # Preview) => ~\E b \in BassLevels : render(b)
      /\ (SinceCancel /\ SinceCancel' /\ canvas = Preview) => canvas' = Preview ]_vars

\* C2 witness: cancelExport has just stopped a 4K session; the canvas is still
\* at the export size and the speakers are connected again.
C2_Witness ==
  /\ SinceCancel
  /\ canvas = RESOLUTIONS["4k"]
  /\ speakerConnected
  /\ ~isExporting

\* C3: when the stop callback of a session stopped by cancelExport runs, no
\* encoder is recording, the exporting flag is false and no download
\* reference is published.
C3_CancelPublishesNothing ==
  [][ \A s \in Sessions :
        (onstop(s) /\ stoppedBy[s] = "cancelExport")
          => /\ downloadUrl' = downloadUrl
             /\ ~isExporting'
             /\ \A r \in Sessions : recState'[r] # "recording" ]_vars

\* C4: the number of live particles never exceeds particleCount.
C4_PopulationBounded == Len(particles) <= particleCount

\* C5: handleStartExport sets the progress to 0, and every poll of a recording
\* session reports min(100*currentTime/duration, 99), never less than the
\* value reported before it.
C5_ProgressMonotone ==
  [][ /\ (\E r \in ResolutionNames : handleStartExport(r)) => exportProgress' = 0
      /\ \A s \in Sessions :
           (checkProgress(s) /\ Recording(s))
             => /\ exportProgress' = ProgressOf(audioTime)
                /\ exportProgress' <= Percent(ProgressCap)
                /\ exportProgress' >= exportProgress ]_vars

\* C6: when the stop callback of a session that ran to the end of the audio
\* has run (the encoder has flushed), the progress is 100.
C6_ReachesHundred ==
  [][ \A s \in Sessions :
        (onstop(s) /\ stoppedBy[s] = "ended") => exportProgress' = Percent(100) ]_vars

\* C7: the ended event clears isPlaying, and whenever the audio is at its end
\* while session s records, eventually s is stopped and flushed with a
\* download reference published and the exporting flag cleared.
C7_EndStopsCapture ==
  /\ [][ (onEnded /\ AudioEnded /\ ~audioPaused) => ~isPlaying' ]_vars
  /\ \A s \in Sessions :
       (AudioEnded /\ Recording(s))
         ~> (Flushed(s) /\ downloadUrl # NullUrl /\ ~isExporting)

\* C8: with neither type supported, handleStartExport alerts, leaves the
\* exporting flag false, constructs no encoder, and leaves the audio position,
\* play state and audibility as they were; every render tick then has the
\* canvas at 1920x1080.
C8_UnsupportedFailsIdle ==
  [][ /\ (~vp9Supported /\ ~webmSupported /\ \E r \in ResolutionNames : handleStartExport(r))
           => /\ userError' = "unsupported"
              /\ ~isExporting'
              /\ recState' = recState
              /\ mediaRecorderRef' = mediaRecorderRef
              /\ audioTime' = audioTime
              /\ audioPaused' = audioPaused
              /\ Audible'
      /\ (~vp9Supported /\ ~webmSupported /\ \E b \in BassLevels : render(b))
           => canvas' = Preview ]_vars

\* C8 witness: a 4K export was refused while the preview was playing.
C8_Witness ==
  /\ userError = "unsupported"
  /\ canvas = RESOLUTIONS["4k"]
  /\ ~audioPaused
  /\ ~isExporting
  /\ mediaRecorderRef = 0

\* C9: a handleStartExport step whose encoder setup fails (unsupported format,
\* or the constructor throwing) shows the user an error, leaves the exporting
\* flag false and leaves the audio position, play state and speaker routing
\* unchanged.
C9_StartErrorsSurfaced ==
  [][ ((\E r \in ResolutionNames : handleStartExport(r)) /\ (UnsupportedFormat \/ RecorderSetupThrows))
        => /\ userError' # "none"
           /\ ~isExporting'
           /\ audioTime' = audioTime
           /\ audioPaused' = audioPaused
           /\ Audible' ]_vars

\* C10: after the round trip, every field present in the serialized object
\* has the original's value, the nested text fields included, and every
\* absent field has the default's value.
C10_RoundTrip ==
  configStep = "merged" =>
    /\ \A f \in DOMAIN DefaultConfig \ {"text"} :
         merged[f] = IF f \in DOMAIN parsed THEN original[f] ELSE DefaultConfig[f]
    /\ \A g \in TextFields :
         merged.text[g] = IF "text" \in DOMAIN parsed /\ g \in DOMAIN parsed.text
                          THEN original.text[g]
                          ELSE DefaultConfig.text[g]

\* a value of the kind types.ts declares for field f of VisualizerConfig
FieldOk(f, v) ==
  CASE f = "mode" -> v \in {"circular", "linear"}
    [] f = "primaryColor" -> v \in CssColors
    [] f = "particleCount" -> v \in Nat
    [] f = "text" -> /\ DOMAIN v = TextFields
                     /\ v.color \in CssColors
    [] OTHER -> FALSE

\* a complete SceneConfig: exactly the declared fields, each of its kind
WellTyped(c) ==
  /\ DOMAIN c = DOMAIN DefaultConfig
  /\ \A f \in DOMAIN c : FieldOk(f, c[f])

\* C11: the config the visualizer gets from a parsed response is a complete,
\* well-typed SceneConfig, and holds the default for every field the response
\* left out or gave a malformed value for.
C11_MalformedFallsBack ==
  (step = "VISUALIZER" /\ configStep = "merged") =>
    /\ WellTyped(visualizerConfig)
    /\ \A f \in DOMAIN DefaultConfig \ {"text"} :
         (f \notin DOMAIN parsed \/ ~FieldOk(f, parsed[f]))
           => visualizerConfig[f] = DefaultConfig[f]

\* C12: when the request rejects or its text cannot be parsed, the result is
\* exactly the default configuration, the step goes from ANALYZING to
\* VISUALIZER and no error is shown.
C12_FailureFallsBack ==
  [][ \A o \in {"rejects", "unparseable"} :
        (\E p \in Responses : generateContent(o, p))
          => /\ step = "ANALYZING"
             /\ step' = "VISUALIZER"
             /\ merged' = DefaultConfig
             /\ visualizerConfig' = DefaultConfig
             /\ error' = "none" ]_vars

\* C12 witness: the catch of analyzeAudioForVisualizer ran and the visualizer
\* is shown with the default configuration and no error.
C12_Witness ==
  /\ configStep = "caught"
  /\ step = "VISUALIZER"
  /\ visualizerConfig = DefaultConfig
  /\ error = "none"

\* C13: while the visualizer is mounted a frame callback is scheduled: no
\* frame ends without scheduling the next one.
C13_LoopNeverHalts == step = "VISUALIZER" => animationRef

\* a frame with the particle layer on
ParticleTick == showParticles /\ \E b \in BassLevels : render(b)

\* the draw call of the frame made for array index i
DrawnAt(log, i) == CHOOSE d \in {log[k] : k \in 1..Len(log)} : d.index = i

\* the particle a draw call painted
Painted(d) == [life |-> d.life, maxLife |-> d.maxLife]

\* the particles a frame drew with life left, in array order
RECURSIVE Survivors(_, _)
Survivors(log, i) ==
  IF i = 0 THEN << >>
  ELSE LET d == DrawnAt(log, i)
       IN Survivors(log, i - 1) \o (IF d.life > 0 THEN << Painted(d) >> ELSE << >>)

\* C14: below the cap, a frame spawns (draws more particles than there were)
\* exactly when an analyser is connected and the frame's bass average exceeds
\* 210, whatever the frames before it were.
C14_BeatIsThreshold ==
  [][ \A b \in BassLevels :
        (render(b) /\ showParticles /\ Len(particles) < particleCount)
          => ((Len(drawn') > Len(particles)) <=> (audioInit /\ b > 210)) ]_vars

\* C14 witness: with the analyser connected a beat frame has drawn a particle it
\* spawned.
C14_Witness ==
  /\ audioInit
  /\ showParticles
  /\ \E k \in 1..Len(drawn) : drawn[k].life = drawn[k].maxLife - 1

\* C15: every particle a frame draws is drawn with a smaller opacity than it
\* was drawn with the frame before, and a particle spawned in the frame is
\* drawn below full opacity.
C15_OpacityDecreases ==
  [][ ParticleTick =>
        \A k \in 1..Len(drawn') :
          LET d == drawn'[k] IN
            IF d.index <= Len(particles)
            THEN AlphaNum(d) * particles[d.index].maxLife
                   < AlphaNum(particles[d.index]) * d.maxLife
            ELSE AlphaNum(d) < d.maxLife ]_vars

\* C15 witness: a particle has been drawn on its second frame or a later one.
C15_Witness ==
  \E k \in 1..Len(drawn) : drawn[k].maxLife - drawn[k].life >= 2

\* C16: a frame draws every particle of the collection, the ones it spawned
\* included, exactly once and after exactly one update, and leaves in the
\* collection exactly the ones with life left, in their order.
C16_PassComplete ==
  [][ ParticleTick =>
        LET n == Len(drawn') IN
        /\ n >= Len(particles)
        /\ \A i \in 1..n : Cardinality({k \in 1..n : drawn'[k].index = i}) = 1
        /\ \A k \in 1..n :
             LET d == drawn'[k] IN
               IF d.index <= Len(particles)
               THEN Painted(d) = update(particles[d.index])
               ELSE d.life = d.maxLife - 1
        /\ particles' = Survivors(drawn', n)
        /\ \A j \in 1..Len(particles') : particles'[j].life > 0 ]_vars

\* C16 witness: a frame removed a particle that was not the last of the array
\* and kept others.
C16_Witness ==
  /\ Len(particles) > 0
  /\ \E k \in 1..Len(drawn) : drawn[k].life <= 0 /\ drawn[k].index < Len(drawn)

\* C17: a frame spawns one batch of 3 when its beat is true and the population
\* is below particleCount, and nothing otherwise; the spawned particles are new.
C17_SpawnBatch ==
  [][ \A b \in BassLevels :
        (render(b) /\ showParticles) =>
          /\ Len(drawn') - Len(particles)
               = IF IsBeat(b) /\ Len(particles) < particleCount THEN SpawnBatch ELSE 0
          /\ \A k \in 1..Len(drawn') :
               drawn'[k].index > Len(particles) => drawn'[k].life = drawn'[k].maxLife - 1 ]_vars

\* C17 witness: the population is at or above the cap right after a frame
\* that spawned.
C17_Witness ==
  /\ Len(particles) >= particleCount
  /\ Cardinality({k \in 1..Len(drawn) : drawn[k].life = drawn[k].maxLife - 1}) = SpawnBatch

\* C18: selecting a file above 100MB sets an error and changes nothing else,
\* with no analysis in flight; a file of 100MB or less is stored and the step
\* becomes ANALYZING.
C18_OversizeRejected ==
  [][ \A size \in FileSizes :
        handleFileSelect(size) =>
          IF size > 100 * 1024 * 1024
          THEN /\ error' # "none"
               /\ step' = "UPLOAD"
               /\ audioFile' = audioFile
               /\ visualizerConfig' = visualizerConfig
               /\ awaiting' = "none"
          ELSE /\ step' = "ANALYZING"
               /\ audioFile' = size
               /\ error' = "none" ]_vars

\* C18 witness: an oversized file was refused after an earlier analysis had
\* failed; the file stored then is still there.
C18_Witness ==
  /\ error = "File size too large"
  /\ step = "UPLOAD"
  /\ audioFile = 1
  /\ awaiting = "none"

\* C19: the step that starts a recording sets the canvas to the requested
\* resolution, no step changes the canvas while a session stays recording, and
\* a stop callback that leaves no session recording leaves the canvas at
\* 1920x1080.
C19_CanvasHeldForSession ==
  [][ /\ \A r \in ResolutionNames :
           (handleStartExport(r) /\ \E s \in Sessions : ~Recording(s) /\ Recording(s)')
             => canvas' = RESOLUTIONS[r]
      /\ (\E s \in Sessions : Recording(s) /\ Recording(s)') => canvas' = canvas
      /\ \A s \in Sessions :
           (onstop(s) /\ \A t \in Sessions : ~Recording(t)') => canvas' = Preview ]_vars

\* C20: once the graph is wired, no step changes the connection between the
\* analyser and the speaker output.
C20_GraphFixed ==
  [][ audioInit => speakerConnected' = speakerConnected ]_vars

\* the first entry of the probe list the support probe accepts
FirstSupported ==
  ProbeList[CHOOSE k \in 1..Len(ProbeList) :
              /\ isTypeSupported(ProbeList[k])
              /\ \A j \in 1..(k - 1) : ~isTypeSupported(ProbeList[j])]

\* C21: whenever a start of the export gets as far as constructing the
\* encoder (some probed type is supported and the capture stream exists), the
\* type handed to the encoder is one the probe accepted, namely the first
\* accepted entry of the probe list.
C21_EncoderGetsProbedFormat ==
  [][ ( /\ \E r \in ResolutionNames : handleStartExport(r)
        /\ ~UnsupportedFormat
        /\ audioInit )
      => ( /\ isTypeSupported(mimeType)
           /\ mimeType = FirstSupported ) ]_vars

\* the chunks of the Blob behind an object URL
ChunksOf(url) == url[1]

\* C24: the artifact a session's stop callback assembles holds only chunks
\* that session's own encoder emitted (here at most the one chunk emitted at
\* its stop), also when callbacks of an earlier, cancelled session run after
\* a new session has started.
C24_SessionOwnsChunks ==
  [][ \A s \in Sessions :
        onstop(s) => ChunksOf(downloadUrl') \in { << >>, << s >> } ]_vars

\* C27: a session's progress timer fires only while that session's encoder
\* records: once the session has ended, by the end of the audio or by
\* cancelExport, its timer never fires again.
C27_TimerEndsWithSession ==
  [][ \A s \in Sessions : checkProgress(s) => Recording(s) ]_vars

\* C29: apart from the instant between the track reaching its end and the
\* ended event being delivered, isPlaying is true exactly when the audio
\* element is playing (not paused and not ended).
C29_FlagMatchesPlayback ==
  endedPending \/ (isPlaying <=> (~audioPaused /\ ~AudioEnded))

\* the play button pressed while playback is off
PlayPressed == togglePlay /\ ~isPlaying

\* C22: the audio context exists exactly once the first interaction made it
\* and is never made again, and every play or export start that finds it
\* suspended resumes it.
C22_ContextMadeOnceAndResumed ==
  [][ /\ (contextState' # "none") = audioInit'
      /\ (contextState # "none" => contextState' # "none")
      /\ ( ( /\ contextState = "suspended"
             /\ (PlayPressed \/ \E r \in ResolutionNames : handleStartExport(r)) )
           => contextState' = "running" ) ]_vars

\* C23: whenever the analyser exists, its smoothing time constant is the
\* smoothing of the current configuration, whatever the order of smoothing
\* changes and the first interaction.
C23_SmoothingFollowsConfig == audioInit => analyserSmoothing = smoothing

\* C25: a frame drawn while there is no analyser is completed (the loop stays
\* scheduled), draws no spectrum bar, spawns no particle and applies no shake.
C25_NoAnalyserNoReactiveLayers ==
  [][ ( /\ \E b \in BassLevels : render(b)
        /\ ~audioInit )
      => ( /\ animationRef'
           /\ frame'.bars = 0
           /\ Len(drawn') = Len(particles)
           /\ ~frame'.shake ) ]_vars

\* C26: for every bar count and every snapshot, the mirrored linear layout
\* gives bar i and bar n-1-i the same height, and every bin it reads is at an
\* integer index inside the snapshot.
C26_MirrorSymmetric ==
  [][ (drawLinearBars /\ dataArray # << >>)
      => LET n == Len(mirrorBars')
         IN /\ \A i \in 1..n :
                 mirrorBars'[i].height = mirrorBars'[n + 1 - i].height
            /\ \A i \in 1..n :
                 /\ mirrorBars'[i].twiceIndex % 2 = 0
                 /\ mirrorBars'[i].twiceIndex \div 2 < Len(dataArray) ]_vars

\* C28: the image a frame draws in a slot is the one the current
\* configuration names for that slot, for every order in which loads finish
\* after the reference was changed or cleared.
C28_NoStaleImage ==
  [][ (\E b \in BassLevels : render(b))
      => \A slot \in Slots : frame'.images[slot] \in {NoImage, image[slot]} ]_vars

\* the level playback is heard at: audio.volume (audio.muted is never set)
Output == elementVolume

\* C30: after toggleMute the output is silent while isMuted is set and at the
\* stored volume while it is not, and the stored volume is left unchanged.
C30_MuteSilences ==
  [][ toggleMute
      => ( /\ Output' = IF isMuted' THEN 0 ELSE volume'
           /\ volume' = volume ) ]_vars

====
